---------------------------- MODULE Spec2Model ----------------------------
(***************************************************************************)
(* TinyShell.  Two programs of the repository are modelled:                *)
(*                                                                         *)
(*   Phase 3 (src/Phase 3/tinyshell.c): the job-control shell.  The main   *)
(*   flow (main/eval/do_bgfg/waitfg) is cut at every point where the       *)
(*   SIGCHLD handler can interrupt it; the handler is one atomic step      *)
(*   (SIGCHLD is blocked while it runs); the children and the kernel are   *)
(*   the environment.  Specification: Spec (FairSpec adds fairness).       *)
(*                                                                         *)
(*   Phase 2 (src/unnamed/part_000): main's read loop with the exit        *)
(*   builtin, parse_pipeline, and execute_pipeline, the pipe / fork /      *)
(*   close / wait sequence of the pipeline launcher, with the stage        *)
(*   processes as the environment.                                         *)
(*   Specification: PipeSpec (FairPipeSpec adds fairness).                 *)
(***************************************************************************)
EXTENDS Integers, Sequences, FiniteSets, TLC

\* Size of the job table.  The source sets 16 (tinyshell.c:17); the model
\* checks a smaller table, large enough for the id counter to wrap while
\* older jobs are live and for the table to fill up.
MAXJOBS == 2

\* Number of process ids the kernel hands out (reused once reaped).
MaxPid == 3

\* Largest pipeline the parser accepts: the model's value of MAX_CMDS, which
\* is 32 in the source (part_000:59).
MaxStages == 3

\* Most tokens split_line hands to the parser: enough for a pipeline of
\* MaxStages stages with a redirection, and for one stage too many.
MaxTokens == 7

\* Longest line, in words, typed at the Phase 2 prompt: one more than
\* split_line keeps.
MaxTyped == 8

\* #define MAX_ARGS 256, at the model's size: main's tokens[MAX_ARGS] holds
\* MAX_ARGS - 1 tokens and the NULL that ends them.
MAX_ARGS == MaxTokens + 1

VARIABLES
    \* ---- Phase 3: the shell process
    jobs,      \* static job_t jobs[MAXJOBS]; slot i of the model is jobs[i-1]
    nextjid,   \* static int nextjid
    pc,        \* position of the main flow
    blocked,   \* SIGCHLD is in the shell's signal mask
    sigchld,   \* a SIGCHLD is pending for the shell
    \* locals, each reset to its idle value after its last read
    argv1,     \* argv[1] of the builtin being run, as a tuple of characters
    isfg,      \* do_bgfg's parameter fg
    bg,        \* eval's local bg
    pid,       \* eval's local pid (-1 when fork failed)
    job,       \* do_bgfg's local job, a slot number (0 is NULL)
    wpid,      \* waitfg's parameter pid
    \* ---- Phase 3: the environment
    proc,      \* the shell's children, by process id
    tcpgrp,    \* foreground process group of the controlling terminal
    \* ---- Phase 3: what the last step did (observations, reset by each step)
    sent,      \* first arguments of the kill() calls the step made
    msg,       \* what the step printed
    hlog,      \* notifications the step, a handler activation, processed
    \* ---- Phase 2: main, parse_pipeline, execute_pipeline
    xpc,       \* position in main / execute_pipeline
    linebuf,   \* the words of the line typed, <<>> once it has been parsed
    tokens,    \* main's tokens[0 .. argc-1], <<>> once they have been parsed
    xmsg,      \* what the last step of the shell printed (reset by each step)
    cmds,      \* pl->cmds[0 .. n_cmds-1], each the argv of a stage
    append,    \* pl->append
    n,         \* pl->n_cmds
    outfile,   \* pl->outfile, NoFile for NULL
    npipes,    \* pipes created so far
    pfds,      \* pipe descriptors open in the launching process
    fi,        \* index of the fork loop
    forkfail,  \* the fork loop ended by break
    kids,      \* the stage processes
    reaped     \* statuses printed by the wait loop, in order

shvars == <<jobs, nextjid, pc, blocked, sigchld, argv1, isfg, bg, pid, job,
            wpid, proc, tcpgrp, sent, msg, hlog>>
xvars  == <<xpc, linebuf, tokens, xmsg, cmds, append, n, outfile, npipes, pfds, fi,
            forkfail, kids, reaped>>
vars   == <<shvars, xvars>>

----------------------------------------------------------------------------
(* Phase 3: identifiers *)

PIDS == 2 .. (MaxPid + 1)          \* pid 1 is init, never a child
shell_pgid == MaxPid + 2           \* getpid() of the shell
SLOTS == 1 .. MAXJOBS
NULL == 0

Min(S) == CHOOSE x \in S : \A y \in S : x <= y

----------------------------------------------------------------------------
(* Phase 3: job list helpers *)

\* cmdline is the command text; the model keeps whether it is set.
clearjob == [pid |-> 0, pgid |-> 0, jid |-> 0, state |-> "UNDEF", cmdline |-> ""]

initjobs == [i \in SLOTS |-> clearjob]

\* The counter after jobs[i].jid = nextjid++.
bumpjid(nj) == IF nj + 1 > MAXJOBS THEN 1 ELSE nj + 1

\* The slot addjob fills: the first whose pid is 0, or NULL.
freeslot(J) == IF \E i \in SLOTS : J[i].pid = 0
               THEN Min({i \in SLOTS : J[i].pid = 0}) ELSE NULL

addjob(J, nj, p, pg, st, cl) ==
    LET i == freeslot(J) IN
    IF i # NULL
    THEN [jobs |-> [J EXCEPT ![i] = [pid |-> p, pgid |-> pg, jid |-> nj,
                                     state |-> st, cmdline |-> cl]],
          nextjid |-> bumpjid(nj), ret |-> 1]
    ELSE [jobs |-> J, nextjid |-> nj, ret |-> 0]

getjob_jid(J, jid) == IF \E i \in SLOTS : J[i].jid = jid
                      THEN Min({i \in SLOTS : J[i].jid = jid}) ELSE NULL

getjob_pid(J, p) == IF \E i \in SLOTS : J[i].pid = p
                    THEN Min({i \in SLOTS : J[i].pid = p}) ELSE NULL

deletejob(J, p) == LET i == getjob_pid(J, p) IN
                   IF i # NULL THEN [J EXCEPT ![i] = clearjob] ELSE J

fgpid(J) == IF \E i \in SLOTS : J[i].state = "FG"
            THEN J[Min({i \in SLOTS : J[i].state = "FG"})].pid ELSE 0

----------------------------------------------------------------------------
(* Phase 3: atoi on argv[1] + 1 *)

Digits == <<"0", "1", "2", "3", "4", "5", "6", "7", "8", "9">>
IsDigit(c) == \E k \in 1..10 : Digits[k] = c
DigitVal(c) == (CHOOSE k \in 1..10 : Digits[k] = c) - 1

RECURSIVE AtoiDigits(_, _)
AtoiDigits(s, acc) ==
    IF s = <<>> \/ ~IsDigit(Head(s)) THEN acc
    ELSE AtoiDigits(Tail(s), acc * 10 + DigitVal(Head(s)))

atoi(s) == IF s # <<>> /\ Head(s) = "-" THEN 0 - AtoiDigits(Tail(s), 0)
           ELSE IF s # <<>> /\ Head(s) = "+" THEN AtoiDigits(Tail(s), 0)
           ELSE AtoiDigits(s, 0)

\* argv[1] of an fg/bg line: <<>> is a missing argument (NULL).
JobArgs == {<<>>, <<"1">>, <<"%", "a">>, <<"%", "-", "1">>}
           \cup {<<"%", Digits[k + 1]>> : k \in 0 .. (MAXJOBS + 1)}

----------------------------------------------------------------------------
(* Phase 3: the kernel's view of the children *)

noproc == [st |-> "none", pgid |-> 0, stopN |-> FALSE, contN |-> FALSE,
           track |-> "none"]

Alive(p) == proc[p].st \in {"forked", "run", "stop"}
Zombie(p) == proc[p].st \in {"exit", "sig"}

\* tcsetpgrp(STDIN_FILENO, pg): fails, changing nothing, unless pg is the
\* shell's group or a group that still has a (possibly zombie) member.
tcsetpgrp(tc, pg, P) ==
    IF pg = shell_pgid \/ \E p \in PIDS : P[p].st # "none" /\ P[p].pgid = pg
    THEN pg ELSE tc

\* What waitpid(-1, WNOHANG | WUNTRACED | WCONTINUED) has to report.
Notifs(P) ==
    {<<p, "exited">> : p \in {q \in PIDS : P[q].st = "exit"}}
    \cup {<<p, "signaled">> : p \in {q \in PIDS : P[q].st = "sig"}}
    \cup {<<p, "stopped">> : p \in {q \in PIDS : P[q].st = "stop" /\ P[q].stopN}}
    \cup {<<p, "continued">> : p \in {q \in PIDS : P[q].contN}}

\* The children once every notification has been collected.
Collected(P) ==
    [p \in PIDS |-> IF P[p].st \in {"exit", "sig"} THEN noproc
                    ELSE [P[p] EXCEPT !.stopN = FALSE, !.contN = FALSE]]


----------------------------------------------------------------------------
(* Phase 3: the SIGCHLD handler *)

\* Nothing printed.
NoMsg == <<"", 0>>

\* (mutant) a stop notification handled like a termination.
OnStoppedClears(J, i) == [J EXCEPT ![i] = clearjob]

\* WIFSTOPPED: job->state = ST.
OnStopped(J, i) == [J EXCEPT ![i].state = "ST"]

\* (mutant) a continued notification puts the job in the background.
OnContinuedSetsBg(J, i) == [J EXCEPT ![i].state = "BG"]

\* WIFCONTINUED: "state already set by fg/bg".
OnContinued(J, i) == J

\* WIFSIGNALED and WIFEXITED: deletejob(pid).
OnGone(J, p) == deletejob(J, p)

\* One turn of the handler's loop, for the notification nt = <<pid, kind>>.
HandleOne(J, nt) ==
    LET i == getjob_pid(J, nt[1]) IN
    IF i = NULL THEN J
    ELSE IF nt[2] = "stopped" THEN OnStopped(J, i)
    ELSE IF nt[2] = "continued" THEN OnContinued(J, i)
    ELSE OnGone(J, nt[1])

\* waitpid(-1) reports the children in an order of the kernel's choosing; the
\* model takes them by pid, a stop before a continue of the same child.  Each
\* notification touches only the slot of its own pid.
NotifKey(nt) == nt[1] * 4 + (IF nt[2] = "stopped" THEN 0
                             ELSE IF nt[2] = "continued" THEN 1 ELSE 2)

RECURSIVE Drain(_, _)
Drain(J, N) ==
    IF N = {} THEN J
    ELSE LET nt == CHOOSE x \in N : \A y \in N : NotifKey(x) <= NotifKey(y)
         IN  Drain(HandleOne(J, nt), N \ {nt})

\* (mutant) the handler calls waitpid once, without the loop.
HandlerTakesOne(J, P) ==
    IF Notifs(P) = {} THEN J
    ELSE HandleOne(J, CHOOSE x \in Notifs(P) :
                          \A y \in Notifs(P) : NotifKey(x) <= NotifKey(y))

\* while ((pid = waitpid(-1, ...)) > 0) { ... }
HandlerDrains(J, P) == Drain(J, Notifs(P))

\* SIGCHLD is delivered when it is pending and not blocked; sigsuspend(&empty)
\* runs with an empty mask and returns once the handler has run.
\* hlog records <<pid, kind, slot found by getjob_pid, registration of pid>>.
sigchld_handler ==
    /\ pc # "exited"
    /\ sigchld
    /\ ~blocked \/ pc = "suspend"
    /\ jobs' = HandlerDrains(jobs, proc)
    /\ hlog' = {<<nt[1], nt[2], getjob_pid(jobs, nt[1]), proc[nt[1]].track>> :
                    nt \in Notifs(proc)}
    /\ proc' = Collected(proc)
    /\ sigchld' = FALSE
    /\ pc' = IF pc = "suspend" THEN "waitfg" ELSE pc
    /\ sent' = {}
    /\ msg' = NoMsg
    /\ UNCHANGED <<nextjid, blocked, argv1, isfg, bg, pid, job, wpid, tcpgrp>>
    /\ UNCHANGED xvars

----------------------------------------------------------------------------
(* Phase 3: main loop, builtins *)

\* A step of the main flow or of a child is no handler activation, and no
\* step of the Phase 2 launcher.
NotHandler == hlog' = {} /\ UNCHANGED xvars

\* A line without words: split_line returns 0.
ReadBlank ==
    /\ pc = "prompt"
    /\ sent' = {}
    /\ msg' = NoMsg
    /\ NotHandler
    /\ UNCHANGED <<jobs, nextjid, pc, blocked, sigchld, argv1, isfg, bg, pid,
                   job, wpid, proc, tcpgrp>>

\* argv[1] of an exit line: none, or a status.
ExitArgs == {<<>>, <<"3">>}

\* The argument of builtin_cmd's exit(0).
BuiltinExitStatus == 0

\* exit or quit with argv[1] = a (or end of input): exit(0).  The process
\* is gone; argv1 and msg keep the argument and the status it ended with.
ReadExit(a) ==
    /\ pc = "prompt"
    /\ pc' = "exited"
    /\ argv1' = a
    /\ sent' = {}
    /\ msg' = <<"exit", BuiltinExitStatus>>
    /\ NotHandler
    /\ UNCHANGED <<jobs, nextjid, blocked, sigchld, isfg, bg, pid,
                   job, wpid, proc, tcpgrp>>

\* do_bgfg up to and including getjob_jid.
BgFgLookup(fg, a) ==
    /\ pc = "prompt"
    /\ sent' = {}
    /\ IF a = <<>> \/ Head(a) # "%"
       THEN /\ msg' = <<"command requires %jobid", 0>>
            /\ UNCHANGED <<pc, argv1, isfg, job>>
       ELSE LET j == getjob_jid(jobs, atoi(Tail(a))) IN
            IF j = NULL
            THEN /\ msg' = <<"No such job", 0>>
                 /\ UNCHANGED <<pc, argv1, isfg, job>>
            ELSE /\ msg' = NoMsg
                 /\ argv1' = a
                 /\ isfg' = fg
                 /\ job' = j
                 /\ pc' = "bf_kill"
    /\ NotHandler
    /\ UNCHANGED <<jobs, nextjid, blocked, sigchld, bg, pid, wpid, proc, tcpgrp>>

\* The processes kill(t, SIGCONT) reaches: a group for t < 0, the caller's
\* own group for t = 0, one process for t > 0.
KillTargets(t, P) ==
    IF t < 0 THEN {p \in PIDS : P[p].st # "none" /\ P[p].pgid = 0 - t}
    ELSE IF t = 0 THEN {p \in PIDS : P[p].st # "none" /\ P[p].pgid = shell_pgid}
    ELSE {p \in PIDS : p = t /\ P[p].st # "none"}

Continue(P, T) ==
    [p \in PIDS |-> IF p \in T /\ P[p].st = "stop"
                    THEN [P[p] EXCEPT !.st = "run", !.stopN = FALSE, !.contN = TRUE]
                    ELSE P[p]]

\* (mutant) the signal goes to the tracked process alone.
ContTargetPid(j) == j.pid

\* The first argument of do_bgfg's kill.
ContTarget(j) == 0 - j.pgid

\* kill(-job->pgid, SIGCONT)
BgFgKill ==
    /\ pc = "bf_kill"
    /\ LET t == ContTarget(jobs[job])
           T == KillTargets(t, proc) IN
       /\ sent' = {t}
       /\ proc' = Continue(proc, T)
       /\ sigchld' = (sigchld \/ \E p \in T : proc[p].st = "stop")
    /\ pc' = IF isfg THEN "bf_setfg" ELSE "bf_setbg"
    /\ argv1' = <<>>
    /\ isfg' = FALSE
    /\ msg' = NoMsg
    /\ NotHandler
    /\ UNCHANGED <<jobs, nextjid, blocked, bg, pid, job, wpid, tcpgrp>>

\* job->state = FG
BgFgSetFg ==
    /\ pc = "bf_setfg"
    /\ jobs' = [jobs EXCEPT ![job].state = "FG"]
    /\ pc' = "bf_tcset"
    /\ sent' = {}
    /\ msg' = NoMsg
    /\ NotHandler
    /\ UNCHANGED <<nextjid, blocked, sigchld, argv1, isfg, bg, pid, job, wpid,
                   proc, tcpgrp>>

\* tcsetpgrp(STDIN_FILENO, job->pgid)
BgFgTcset ==
    /\ pc = "bf_tcset"
    /\ tcpgrp' = tcsetpgrp(tcpgrp, jobs[job].pgid, proc)
    /\ pc' = "bf_wait"
    /\ sent' = {}
    /\ msg' = NoMsg
    /\ NotHandler
    /\ UNCHANGED <<jobs, nextjid, blocked, sigchld, argv1, isfg, bg, pid, job,
                   wpid, proc>>

\* waitfg(job->pid): the argument is read here.
BgFgWait ==
    /\ pc = "bf_wait"
    /\ wpid' = jobs[job].pid
    /\ job' = NULL
    /\ pc' = "waitfg"
    /\ sent' = {}
    /\ msg' = NoMsg
    /\ NotHandler
    /\ UNCHANGED <<jobs, nextjid, blocked, sigchld, argv1, isfg, bg, pid,
                   proc, tcpgrp>>

\* job->state = BG; printf("[%d]+ %s&\n", job->jid, job->cmdline)
BgFgSetBg ==
    /\ pc = "bf_setbg"
    /\ jobs' = [jobs EXCEPT ![job].state = "BG"]
    /\ msg' = <<"resumed in background", jobs[job].jid>>
    /\ job' = NULL
    /\ pc' = "prompt"
    /\ sent' = {}
    /\ NotHandler
    /\ UNCHANGED <<nextjid, blocked, sigchld, argv1, isfg, bg, pid, wpid, proc,
                   tcpgrp>>

----------------------------------------------------------------------------
(* Phase 3: eval *)

\* The pid a successful fork returns: the lowest one not in use (the shell
\* treats pids as opaque, so which free pid the kernel picks is immaterial).
\* 0 when none is free.
NewPid(P) == IF \E p \in PIDS : P[p].st = "none"
             THEN Min({p \in PIDS : P[p].st = "none"}) ELSE 0

\* (mutant) eval forks without blocking SIGCHLD.
NeverBlocked == FALSE

\* The mask after eval's sigprocmask(SIG_BLOCK, &mask, NULL).
AfterBlock == TRUE

\* sigprocmask(SIG_BLOCK, {SIGCHLD}); pid = fork().  The child starts in the
\* shell's process group; fork may fail and return -1.
EvalFork(b) ==
    /\ pc = "prompt"
    /\ sent' = {}
    /\ msg' = NoMsg
    /\ blocked' = AfterBlock
    /\ bg' = b
    /\ \/ \E p \in PIDS :
            /\ p = NewPid(proc)
            /\ proc' = [proc EXCEPT ![p] = [noproc EXCEPT !.st = "forked",
                                                          !.pgid = shell_pgid]]
            /\ pid' = p
       \/ /\ pid' = 0 - 1
          /\ proc' = proc
    /\ pc' = "addjob"
    /\ NotHandler
    /\ UNCHANGED <<jobs, nextjid, sigchld, argv1, isfg, job, wpid, tcpgrp>>

\* (mutant) the parent leaves the group to the child's own setpgid(0, 0).
NoParentSetpgid(P, p) == P

\* setpgid(p, p) in the parent: moves a child that has not yet moved itself
\* (a child that has exec'd has, so EACCES changes nothing); fails for -1.
setpgid(P, p) ==
    IF p \in PIDS /\ P[p].st # "none" THEN [P EXCEPT ![p].pgid = p] ELSE P

\* The call eval makes: addjob(pid, pid, bg ? BG : FG, cmdline).
EvalRegister(J, nj, p, b) == addjob(J, nj, p, p, IF b THEN "BG" ELSE "FG", "cmd")

\* setpgid(pid, pid); addjob(...).  The return value of addjob is dropped.
EvalAddjob ==
    /\ pc = "addjob"
    /\ LET r == EvalRegister(jobs, nextjid, pid, bg)
           P == setpgid(proc, pid) IN
       /\ jobs' = r.jobs
       /\ nextjid' = r.nextjid
       /\ msg' = IF r.ret = 0 THEN <<"too many jobs", 0>> ELSE NoMsg
       /\ proc' = IF pid \in PIDS
                  THEN [P EXCEPT ![pid].track = IF r.ret = 1 THEN "reg" ELSE "lost"]
                  ELSE P
    /\ pc' = "unblock"
    /\ sent' = {}
    /\ NotHandler
    /\ UNCHANGED <<blocked, sigchld, argv1, isfg, bg, pid, job, wpid, tcpgrp>>

\* The mask after eval's sigprocmask(SIG_UNBLOCK, &mask, NULL).
AfterUnblock == FALSE

EvalUnblock ==
    /\ pc = "unblock"
    /\ blocked' = AfterUnblock
    /\ pc' = IF bg THEN "printbg" ELSE "tcset"
    /\ bg' = FALSE
    /\ sent' = {}
    /\ msg' = NoMsg
    /\ NotHandler
    /\ UNCHANGED <<jobs, nextjid, sigchld, argv1, isfg, pid, job, wpid,
                   proc, tcpgrp>>

\* tcsetpgrp(STDIN_FILENO, pid); waitfg(pid) is entered.
EvalTcset ==
    /\ pc = "tcset"
    /\ tcpgrp' = tcsetpgrp(tcpgrp, pid, proc)
    /\ wpid' = pid
    /\ pid' = 0
    /\ pc' = "waitfg"
    /\ sent' = {}
    /\ msg' = NoMsg
    /\ NotHandler
    /\ UNCHANGED <<jobs, nextjid, blocked, sigchld, argv1, isfg, bg, job, proc>>

\* The job id eval prints for a background launch.
PrintedJid(nj) == nj - 1

\* printf("[%d] %d\n", nextjid - 1, pid)
EvalPrintBg ==
    /\ pc = "printbg"
    /\ msg' = <<"background job", PrintedJid(nextjid)>>
    /\ pid' = 0
    /\ pc' = "prompt"
    /\ sent' = {}
    /\ NotHandler
    /\ UNCHANGED <<jobs, nextjid, blocked, sigchld, argv1, isfg, bg, job, wpid,
                   proc, tcpgrp>>

----------------------------------------------------------------------------
(* Phase 3: waitfg *)

\* (mutant) the loop condition inverted.
NotForeground(J, w) == fgpid(J) # w

\* The loop condition of waitfg: fgpid() == pid.
StillForeground(J, w) == fgpid(J) = w

\* while (fgpid() == pid) ...: the test.
WaitfgTest ==
    /\ pc = "waitfg"
    /\ pc' = IF StillForeground(jobs, wpid) THEN "callsuspend" ELSE "tcrestore"
    /\ sent' = {}
    /\ msg' = NoMsg
    /\ NotHandler
    /\ UNCHANGED <<jobs, nextjid, blocked, sigchld, argv1, isfg, bg, pid, job,
                   wpid, proc, tcpgrp>>

\* sigsuspend(&empty) is entered: the shell sleeps until a handler has run.
WaitfgSuspend ==
    /\ pc = "callsuspend"
    /\ pc' = "suspend"
    /\ sent' = {}
    /\ msg' = NoMsg
    /\ NotHandler
    /\ UNCHANGED <<jobs, nextjid, blocked, sigchld, argv1, isfg, bg, pid, job,
                   wpid, proc, tcpgrp>>

\* waitfg has returned: tcsetpgrp(STDIN_FILENO, shell_pgid), back to main.
TcRestore ==
    /\ pc = "tcrestore"
    /\ tcpgrp' = tcsetpgrp(tcpgrp, shell_pgid, proc)
    /\ wpid' = 0
    /\ pc' = "prompt"
    /\ sent' = {}
    /\ msg' = NoMsg
    /\ NotHandler
    /\ UNCHANGED <<jobs, nextjid, blocked, sigchld, argv1, isfg, bg, pid, job,
                   proc>>

----------------------------------------------------------------------------
(* Phase 3: the children *)

shellside == <<jobs, nextjid, pc, blocked, argv1, isfg, bg, pid, job, wpid,
               tcpgrp>>

\* A step of a child prints nothing in the shell and sends nothing from it.
Silent == sent' = {} /\ msg' = NoMsg /\ NotHandler

\* The child's own setpgid(0, 0).
ChildSetpgid(p) ==
    /\ pc # "exited"
    /\ proc[p].st = "forked"
    /\ proc[p].pgid # p
    /\ proc' = [proc EXCEPT ![p].pgid = p]
    /\ Silent
    /\ UNCHANGED <<shellside, sigchld>>

\* execvp succeeds: the program runs.
ChildExec(p) ==
    /\ pc # "exited"
    /\ proc[p].st = "forked"
    /\ proc[p].pgid = p
    /\ proc' = [proc EXCEPT ![p].st = "run"]
    /\ Silent
    /\ UNCHANGED <<shellside, sigchld>>

\* _exit(1) after perror("execvp").
FailedExecStatus == 1

\* execvp fails (the name is not found): perror("execvp"); _exit(1).
ChildExecFails(p) ==
    /\ pc # "exited"
    /\ proc[p].st = "forked"
    /\ proc[p].pgid = p
    /\ proc' = [proc EXCEPT ![p].st = "exit", ![p].stopN = FALSE, ![p].contN = FALSE]
    /\ sigchld' = TRUE
    /\ sent' = {}
    /\ msg' = <<"execvp", FailedExecStatus>>
    /\ NotHandler
    /\ UNCHANGED shellside

\* The program exits.
ChildExit(p) ==
    /\ pc # "exited"
    /\ proc[p].st = "run"
    /\ proc' = [proc EXCEPT ![p].st = "exit", ![p].stopN = FALSE, ![p].contN = FALSE]
    /\ sigchld' = TRUE
    /\ Silent
    /\ UNCHANGED shellside

\* A fatal signal to the program.
ChildKilled(p) ==
    /\ pc # "exited"
    /\ proc[p].st \in {"run", "stop"}
    /\ proc' = [proc EXCEPT ![p].st = "sig", ![p].stopN = FALSE, ![p].contN = FALSE]
    /\ sigchld' = TRUE
    /\ Silent
    /\ UNCHANGED shellside

\* A stop signal (SIGTSTP from the terminal, SIGSTOP or SIGTTIN otherwise).
ChildStopped(p) ==
    /\ pc # "exited"
    /\ proc[p].st = "run"
    /\ proc' = [proc EXCEPT ![p].st = "stop", ![p].stopN = TRUE]
    /\ sigchld' = TRUE
    /\ Silent
    /\ UNCHANGED shellside

----------------------------------------------------------------------------
(* Phase 2: the launcher at rest (its model follows) *)

\* pl->outfile == NULL (no token is empty).
NoFile == <<>>

\* Nothing printed.
XNoMsg == <<"", 0>>

XIdle ==
    /\ xpc = "idle"
    /\ linebuf = <<>>
    /\ tokens = <<>>
    /\ xmsg = XNoMsg
    /\ cmds = <<>>
    /\ append = FALSE
    /\ n = 0
    /\ outfile = NoFile
    /\ npipes = 0
    /\ pfds = {}
    /\ fi = 0
    /\ forkfail = FALSE
    /\ kids = <<>>
    /\ reaped = <<>>

----------------------------------------------------------------------------
(* Phase 3: the specification *)

\* main up to the loop: shell_pgid = getpid(); tcsetpgrp; handlers; initjobs.
Init ==
    /\ jobs = initjobs
    /\ nextjid = 1
    /\ pc = "prompt"
    /\ blocked = FALSE
    /\ sigchld = FALSE
    /\ argv1 = <<>>
    /\ isfg = FALSE
    /\ bg = FALSE
    /\ pid = 0
    /\ job = NULL
    /\ wpid = 0
    /\ proc = [p \in PIDS |-> noproc]
    /\ tcpgrp = shell_pgid
    /\ sent = {}
    /\ msg = NoMsg
    /\ hlog = {}
    /\ XIdle

Next ==
    \/ sigchld_handler
    \/ ReadBlank
    \/ \E a \in ExitArgs : ReadExit(a)
    \/ \E fg \in BOOLEAN, a \in JobArgs : BgFgLookup(fg, a)
    \/ BgFgKill
    \/ BgFgSetFg
    \/ BgFgTcset
    \/ BgFgWait
    \/ BgFgSetBg
    \/ \E b \in BOOLEAN : EvalFork(b)
    \/ EvalAddjob
    \/ EvalUnblock
    \/ EvalTcset
    \/ EvalPrintBg
    \/ WaitfgTest
    \/ WaitfgSuspend
    \/ TcRestore
    \/ \E p \in PIDS : ChildSetpgid(p)
    \/ \E p \in PIDS : ChildExec(p)
    \/ \E p \in PIDS : ChildExecFails(p)
    \/ \E p \in PIDS : ChildExit(p)
    \/ \E p \in PIDS : ChildKilled(p)
    \/ \E p \in PIDS : ChildStopped(p)

Spec == Init /\ [][Next]_vars

\* The steps the shell takes by itself once a line is read (reading a line
\* waits for the user; the children owe nothing).
Progress ==
    \/ BgFgKill \/ BgFgSetFg \/ BgFgTcset \/ BgFgWait \/ BgFgSetBg
    \/ EvalAddjob \/ EvalUnblock \/ EvalTcset \/ EvalPrintBg
    \/ WaitfgTest \/ WaitfgSuspend \/ TcRestore

\* The shell process keeps running, and the kernel delivers a pending,
\* unblocked SIGCHLD.
FairSpec == Spec /\ WF_vars(Progress) /\ WF_vars(sigchld_handler)

----------------------------------------------------------------------------
(* Phase 3: properties *)

Live(j) == j.pid # 0
Real(j) == j.pid \in PIDS
InWaitfg == pc \in {"waitfg", "callsuspend", "suspend"}
Gone(kind) == kind \in {"exited", "signaled"}

\* C1: in every reachable state at most one slot of the job table has
\* state FG.
C1_AtMostOneForeground ==
    Cardinality({i \in SLOTS : jobs[i].state = "FG"}) <= 1

\* C1 witness: a job is in the foreground while another job is live.
C1_Witness ==
    \E i, k \in SLOTS : /\ i # k
                        /\ Real(jobs[i]) /\ jobs[i].state = "FG"
                        /\ Real(jobs[k]) /\ jobs[k].state \in {"BG", "ST"}

\* C2: a live entry is cleared or overwritten (its pid, pgid, jid or command
\* text changes) only by a handler activation that processed an exited or
\* signaled notification for the entry's pid; the entry is then empty, and
\* nothing is left in the table under that pid to remove a second time.
C2_RemovedOnlyByTermination ==
    [][ /\ \A i \in SLOTS :
             ( /\ Live(jobs[i])
               /\ jobs'[i] # [jobs[i] EXCEPT !.state = jobs'[i].state] )
             => /\ jobs'[i] = clearjob
                /\ \E e \in hlog' : e[1] = jobs[i].pid /\ Gone(e[2])
        /\ \A e \in hlog' : Gone(e[2]) => \A i \in SLOTS : jobs'[i].pid # e[1]
      ]_vars

\* C2 witness: the handler has just removed a job on its termination while
\* another job stays in the table.
C2_Witness ==
    \E e \in hlog : /\ Gone(e[2])
                    /\ e[3] # NULL
                    /\ jobs[e[3]] = clearjob
                    /\ \E k \in SLOTS : Real(jobs[k])

\* C3: (a) waitfg does not return while the job it waits for is FG;
\* (b) once the process waitfg waits for has terminated or stopped, waitfg
\* returns (the shell reaches the tcsetpgrp after it), whatever the point of
\* the test-then-sigsuspend loop the handler runs at.
C3_WaitfgReturns ==
    /\ [](pc = "tcrestore" =>
             ~\E i \in SLOTS : Live(jobs[i]) /\ jobs[i].pid = wpid
                               /\ jobs[i].state = "FG")
    /\ ( (InWaitfg /\ wpid \in PIDS /\ proc[wpid].st \in {"exit", "sig", "stop"})
           ~> (pc = "tcrestore") )

\* C4: SIGCHLD is blocked from the fork until addjob has returned; the
\* handler takes the unmatched-pid branch only for a child whose registration
\* was refused; and every entry with a child's pid tracks a child that has
\* not been reaped (no termination was missed).
C4_NoMissedChild ==
    /\ pc \in {"addjob", "unblock"} => blocked
    /\ \A e \in hlog : e[3] = NULL => e[4] = "lost"
    /\ \A i \in SLOTS : Real(jobs[i]) =>
           /\ proc[jobs[i].pid].st # "none"
           /\ proc[jobs[i].pid].track = "reg"

\* C4 witness: the child has already terminated, and its SIGCHLD is pending,
\* when addjob has just registered it.
C4_Witness ==
    /\ pc = "unblock"
    /\ pid \in PIDS
    /\ proc[pid].st = "exit"
    /\ sigchld
    /\ getjob_pid(jobs, pid) # NULL

NamesLiveJob(a, J) ==
    /\ a # <<>>
    /\ Head(a) = "%"
    /\ \E i \in SLOTS : Live(J[i]) /\ J[i].jid = atoi(Tail(a))

\* C6: fg and bg go past their argument checks only with an argument that
\* names a live job; otherwise they print an error, and the step that prints
\* it sends no signal, leaves the job table and the terminal alone and is
\* back at the prompt.
C6_BadArgumentRejected ==
    [][ /\ (pc = "prompt" /\ pc' = "bf_kill") => NamesLiveJob(argv1', jobs)
        /\ msg' \in {<<"command requires %jobid", 0>>, <<"No such job", 0>>}
             => /\ pc' = "prompt"
                /\ sent' = {}
                /\ jobs' = jobs
                /\ tcpgrp' = tcpgrp
      ]_vars

\* C7: while the shell is in waitfg for a job in state FG the terminal belongs
\* to that job's process group, and at the prompt it belongs to the shell's.
C7_TerminalOwnership ==
    /\ InWaitfg =>
          \A i \in SLOTS :
              (Live(jobs[i]) /\ jobs[i].pid = wpid /\ jobs[i].state = "FG")
                  => tcpgrp = jobs[i].pgid
    /\ pc = "prompt" => tcpgrp = shell_pgid

\* C8: the kill of fg/bg is sent to minus the pgid of the entry looked up;
\* for a live job with a process that is a negative number (a group), not
\* the tracked pid, and the group of no other job.
C8_ContinueToGroup ==
    sent # {} =>
        /\ job \in SLOTS
        /\ sent = {0 - jobs[job].pgid}
        /\ Real(jobs[job]) =>
              \A t \in sent :
                  /\ t < 0
                  /\ t # jobs[job].pid
                  /\ \A i \in SLOTS \ {job} :
                         Real(jobs[i]) => t # 0 - jobs[i].pgid

\* C8 witness: a stopped job has just been sent the signal and its process
\* runs again, while another job is live.
C8_Witness ==
    /\ sent # {}
    /\ job \in SLOTS
    /\ Real(jobs[job])
    /\ jobs[job].state = "ST"
    /\ proc[jobs[job].pid].st = "run"
    /\ proc[jobs[job].pid].contN
    /\ \E i \in SLOTS \ {job} : Real(jobs[i])

TableFull(J) == \A i \in SLOTS : J[i].pid # 0

\* C9: with the table full a launch changes neither the table nor the id
\* counter, and a foreground launch is not back at the prompt while its
\* process runs without an entry.
C9_FullTableKeepsTrack ==
    [][ /\ (pc = "addjob" /\ TableFull(jobs))
             => (jobs' = jobs /\ nextjid' = nextjid)
        /\ (pc = "tcrestore" /\ pc' = "prompt" /\ wpid \in PIDS)
             => ~(Alive(wpid) /\ getjob_pid(jobs, wpid) = NULL)
      ]_vars

----------------------------------------------------------------------------
(* Phase 2: main and parse_pipeline *)

\* #define MAX_CMDS 32, at the model's size.
MAX_CMDS == MaxStages

\* Tokens, as tuples of characters: a plain word and the three operators.
Word == <<"a">>
Bar == <<"|">>
Gt == <<">">>
GtGt == <<">", ">">>
ExitWord == <<"e", "x", "i", "t">>

\* The lines main reads, as the words fgets and trim leave: at least one
\* word (an empty line is skipped before parsing), each a plain word or an
\* operator; and the exit builtin with and without an argument.
TokenSet == {Word, Bar, Gt, GtGt}
SeqsUpTo(S, k) == UNION {[1 .. m -> S] : m \in 1 .. k}
Lines == SeqsUpTo(TokenSet, MaxTyped)
ExitLines == {<<ExitWord>>, <<ExitWord, <<"3">>>>}

\* split_line(line, argv, max_args): the loop stops at the end of the line or
\* at max_args - 1 tokens, whichever comes first, and says nothing.
split_line(line, max_args) ==
    SubSeq(line, 1, Min({Len(line), max_args - 1}))

\* memset(pl, 0, sizeof(*pl)); pl->n_cmds = 1; cur = &pl->cmds[0]
ParseStart == [cmds |-> << <<>> >>, n_cmds |-> 1, outfile |-> NoFile,
               append |-> FALSE, ret |-> 0, err |-> ""]

\* fprintf(stderr, ...); return -1
ParseFail(pl, why) == [pl EXCEPT !.ret = -1, !.err = why]

\* strcmp(tok, ">") == 0 || strcmp(tok, ">>") == 0
IsRedir(tok) == tok = Gt \/ tok = GtGt

\* The token loop of parse_pipeline from token i on (i counts from 1).
RECURSIVE ParseLoop(_, _, _)
ParseLoop(toks, i, pl) ==
    IF i > Len(toks) THEN pl
    ELSE LET tok == toks[i]
             cur == pl.cmds[pl.n_cmds]
         IN  IF tok = Bar
             THEN IF Len(cur) = 0
                  THEN ParseFail(pl, "syntax error near '|'")
                  ELSE IF pl.n_cmds >= MAX_CMDS
                  THEN ParseFail(pl, "too many pipeline stages")
                  ELSE ParseLoop(toks, i + 1,
                                 [pl EXCEPT !.cmds = Append(@, <<>>),
                                            !.n_cmds = @ + 1])
             ELSE IF IsRedir(tok)
             THEN IF i + 1 > Len(toks)
                  THEN ParseFail(pl, "redirection without filename")
                  ELSE IF pl.outfile # NoFile
                  THEN ParseFail(pl, "multiple output redirections")
                  ELSE ParseLoop(toks, i + 2,
                                 [pl EXCEPT !.outfile = toks[i + 1],
                                            !.append = (Len(tok) > 1 /\ tok[2] = ">")])
             ELSE IF Len(cur) >= MAX_ARGS - 1
                  THEN ParseFail(pl, "too many arguments")
                  ELSE ParseLoop(toks, i + 1,
                                 [pl EXCEPT !.cmds[pl.n_cmds] = Append(@, tok)])

\* parse_pipeline(tokens, argc, &pl): the record holds *pl, the return value
\* and the message printed.
parse_pipeline(toks) ==
    IF Len(toks) = 0 THEN ParseFail(ParseStart, "")
    ELSE LET pl == ParseLoop(toks, 1, ParseStart)
         IN  IF pl.ret < 0 THEN pl
             ELSE IF Len(pl.cmds[pl.n_cmds]) = 0
             THEN ParseFail(pl, "empty command in pipeline")
             ELSE pl

\* What a step of main leaves alone.
XLauncherRest == UNCHANGED <<npipes, pfds, fi, forkfail, kids, reaped>>
XPipelineRest == UNCHANGED <<cmds, append, n, outfile>>

\* fgets, trim, split_line: a line of at least one token has been read.
XRead ==
    /\ xpc = "idle"
    /\ linebuf' \in Lines \cup ExitLines
    /\ tokens' = split_line(linebuf', MAX_ARGS)
    /\ xpc' = "parse"
    /\ xmsg' = XNoMsg
    /\ XPipelineRest
    /\ XLauncherRest
    /\ UNCHANGED shvars

\* The status a process ends with when main returns code.
ExitStatus(code) == code % 256

\* Builtin: exit [code].
XExit ==
    /\ xpc = "parse"
    /\ tokens[1] = ExitWord
    /\ xmsg' = <<"Exiting", ExitStatus(IF Len(tokens) >= 2 THEN atoi(tokens[2]) ELSE 0)>>
    /\ xpc' = "exited"
    /\ UNCHANGED <<linebuf, tokens>>
    /\ XPipelineRest
    /\ XLauncherRest
    /\ UNCHANGED shvars

\* parse_pipeline fails: "continue", nothing is executed.
XParseError ==
    /\ xpc = "parse"
    /\ tokens[1] # ExitWord
    /\ parse_pipeline(tokens).ret < 0
    /\ xmsg' = <<parse_pipeline(tokens).err, 0>>
    /\ xpc' = "idle"
    /\ linebuf' = <<>>
    /\ tokens' = <<>>
    /\ XPipelineRest
    /\ XLauncherRest
    /\ UNCHANGED shvars

----------------------------------------------------------------------------
(* Phase 2: execute_pipeline *)

\* A descriptor of the pipes array: <<i, e>> is pipes[i][e], e = 0 the read
\* end, e = 1 the write end.
PipeEnds(k) == {<<i, e>> : i \in 0 .. (k - 1), e \in {0, 1}}

\* Where a standard stream of a stage points.
Tty == <<"tty", 0, 0>>
File == <<"file", 0, 0>>
PipeEnd(i, e) == <<"pipe", i, e>>

\* for (int i = 0; i < n - 1; i++) pipe(pipes[i])
PipesNeeded(k) == k - 1

\* parse_pipeline succeeded: execute_pipeline(&pl) is entered.
XStart ==
    /\ xpc = "parse"
    /\ tokens[1] # ExitWord
    /\ LET pl == parse_pipeline(tokens)
       IN  /\ pl.ret = 0
           /\ cmds' = pl.cmds
           /\ append' = pl.append
           /\ n' = pl.n_cmds
           /\ outfile' = pl.outfile
    /\ linebuf' = <<>>
    /\ tokens' = <<>>
    /\ xmsg' = XNoMsg
    /\ npipes' = 0
    /\ pfds' = {}
    /\ fi' = 0
    /\ forkfail' = FALSE
    /\ kids' = <<>>
    /\ reaped' = <<>>
    /\ xpc' = "pipes"
    /\ UNCHANGED shvars

\* What a step of execute_pipeline leaves alone.
XKeep == /\ UNCHANGED <<linebuf, tokens, cmds, append, n, outfile>>
         /\ UNCHANGED shvars

\* pipe(pipes[i]) succeeds, or fails and execute_pipeline returns at once.
XPipe ==
    /\ xpc = "pipes"
    /\ npipes < PipesNeeded(n)
    /\ \/ /\ pfds' = pfds \cup {<<npipes, 0>>, <<npipes, 1>>}
          /\ npipes' = npipes + 1
          /\ xpc' = xpc
          /\ xmsg' = XNoMsg
       \/ /\ xpc' = "pipe_error"
          /\ xmsg' = <<"pipe", 0>>
          /\ UNCHANGED <<pfds, npipes>>
    /\ UNCHANGED <<fi, forkfail, kids, reaped>>
    /\ XKeep

\* The pipe loop is over.
XPipesDone ==
    /\ xpc = "pipes"
    /\ ~(npipes < PipesNeeded(n))
    /\ xpc' = "fork"
    /\ xmsg' = XNoMsg
    /\ UNCHANGED <<npipes, pfds, fi, forkfail, kids, reaped>>
    /\ XKeep

\* The child fork() makes for stage i: it holds a copy of every descriptor
\* the parent has open, and the parent's standard streams.
NewKid(i, F) == [stage |-> i, st |-> "forked", fds |-> F, in |-> Tty,
                 out |-> Tty, status |-> 0, note |-> ""]

\* fork() for stage fi succeeds, or fails and the loop is left by break.
XFork ==
    /\ xpc = "fork"
    /\ fi < n
    /\ \/ /\ kids' = Append(kids, NewKid(fi, pfds))
          /\ fi' = fi + 1
          /\ xmsg' = XNoMsg
          /\ UNCHANGED <<xpc, forkfail>>
       \/ /\ forkfail' = TRUE
          /\ xpc' = "close"
          /\ xmsg' = <<"fork", 0>>
          /\ UNCHANGED <<kids, fi>>
    /\ UNCHANGED <<npipes, pfds, reaped>>
    /\ XKeep

\* The fork loop is over.
XForksDone ==
    /\ xpc = "fork"
    /\ ~(fi < n)
    /\ xpc' = "close"
    /\ xmsg' = XNoMsg
    /\ UNCHANGED <<npipes, pfds, fi, forkfail, kids, reaped>>
    /\ XKeep

\* (mutant) the parent closes the write ends only.
ParentClosesWriteEnds(F, k) == F \ {<<i, 1>> : i \in 0 .. (k - 2)}

\* for (int i = 0; i < n - 1; i++) { close(pipes[i][0]); close(pipes[i][1]); }
ParentCloses(F, k) == F \ PipeEnds(k - 1)

XClose ==
    /\ xpc = "close"
    /\ pfds' = ParentCloses(pfds, n)
    /\ xpc' = "wait"
    /\ xmsg' = XNoMsg
    /\ UNCHANGED <<npipes, fi, forkfail, kids, reaped>>
    /\ XKeep

\* wait(&status) returns a terminated child; its status is printed.
XWait ==
    /\ xpc = "wait"
    /\ \E k \in 1 .. Len(kids) :
          /\ kids[k].st = "zombie"
          /\ kids' = [kids EXCEPT ![k].st = "reaped"]
          /\ reaped' = Append(reaped, <<kids[k].stage, kids[k].status>>)
          /\ xmsg' = <<"exited with code", kids[k].status>>
    /\ UNCHANGED <<xpc, npipes, pfds, fi, forkfail>>
    /\ XKeep

\* wait(&status) returns -1: no child is left, execute_pipeline returns.
XWaitDone ==
    /\ xpc = "wait"
    /\ \A k \in 1 .. Len(kids) : kids[k].st = "reaped"
    /\ xpc' = "done"
    /\ xmsg' = XNoMsg
    /\ UNCHANGED <<npipes, pfds, fi, forkfail, kids, reaped>>
    /\ XKeep

\* execute_pipeline has returned; main prints the prompt for the next line.
XReturn ==
    /\ xpc \in {"done", "pipe_error"}
    /\ xpc' = "idle"
    /\ linebuf' = <<>>
    /\ tokens' = <<>>
    /\ xmsg' = XNoMsg
    /\ cmds' = <<>>
    /\ append' = FALSE
    /\ n' = 0
    /\ outfile' = NoFile
    /\ npipes' = 0
    /\ pfds' = {}
    /\ fi' = 0
    /\ forkfail' = FALSE
    /\ kids' = <<>>
    /\ reaped' = <<>>
    /\ UNCHANGED shvars

\* The stage's stdin after "if (i > 0) dup2(pipes[i - 1][0], STDIN_FILENO)".
WireStdin(i) == IF i > 0 THEN PipeEnd(i - 1, 0) ELSE Tty

\* (mutant) the redirection is applied in every stage.
WireStdoutAnyStage(i, k, of) ==
    LET piped == IF i < k - 1 THEN PipeEnd(i, 1) ELSE Tty
    IN  IF of THEN File ELSE piped

\* The stage's stdout after "if (i < n - 1) dup2(pipes[i][1], STDOUT_FILENO)"
\* and then "if (i == n - 1 && pl->outfile != NULL) ... dup2(fd, STDOUT_FILENO)".
WireStdout(i, k, of) ==
    LET piped == IF i < k - 1 THEN PipeEnd(i, 1) ELSE Tty
    IN  IF i = k - 1 /\ of THEN File ELSE piped

\* (mutant) the child keeps the pipe descriptors it inherited.
KidClosesNothing(F, k) == F

\* for (int j = 0; j < n - 1; j++) { close(pipes[j][0]); close(pipes[j][1]); }
KidCloses(F, k) == F \ PipeEnds(k - 1)

\* A stage process that has not terminated.
KidLive(kid) == kid.st \in {"forked", "wired", "run"}

\* The stage process holds the pipe end <<i, e>> open: as a descriptor of
\* the pipes array it inherited, or as its stdin or stdout.
Holds(kid, i, e) ==
    /\ KidLive(kid)
    /\ \/ <<i, e>> \in kid.fds
       \/ kid.in = PipeEnd(i, e)
       \/ kid.out = PipeEnd(i, e)

\* The stages that hold the end e of pipe i open.
Holders(K, i, e) == {K[k].stage : k \in {j \in 1 .. Len(K) : Holds(K[j], i, e)}}

\* read() on the stdin of the stage returns end-of-file: the stdin is a pipe
\* whose write end nobody holds any more (the launcher included), or it is
\* the shell's own input, which the user ends.
Eof(kid, K, F) ==
    \/ kid.in = Tty
    \/ /\ kid.stage > 0
       /\ kid.in = PipeEnd(kid.stage - 1, 0)
       /\ Holders(K, kid.stage - 1, 1) = {}
       /\ <<kid.stage - 1, 1>> \notin F

\* A step of a stage process: the launcher itself does not move.
KidStep ==
    /\ xpc \in {"fork", "close", "wait"}
    /\ xmsg' = XNoMsg
    /\ UNCHANGED <<xpc, npipes, pfds, fi, forkfail, reaped>>
    /\ XKeep

\* The child of stage i wires its streams and closes every pipes[j][*];
\* open() of the redirection target may fail, and the child then _exit(1)s.
KidSetup(k) ==
    /\ k \in 1 .. Len(kids)
    /\ kids[k].st = "forked"
    /\ \/ kids' = [kids EXCEPT ![k].st = "wired",
                               ![k].in = WireStdin(kids[k].stage),
                               ![k].out = WireStdout(kids[k].stage, n,
                                                     outfile # NoFile),
                               ![k].fds = KidCloses(kids[k].fds, n)]
       \/ /\ kids[k].stage = n - 1 /\ outfile # NoFile
          /\ kids' = [kids EXCEPT ![k].st = "zombie",
                                  ![k].in = WireStdin(kids[k].stage),
                                  ![k].status = 1,
                                  ![k].note = "open",
                                  ![k].fds = {}]
    /\ KidStep

\* _exit(127) after "tinyshell: command not found".
NotFoundStatus == 127

\* find_executable_in_path and execve: the program runs; or the name is not
\* found, the child prints "command not found" and _exit(127)s; or execve
\* itself fails, perror("execve") and _exit(127).
KidExec(k) ==
    /\ k \in 1 .. Len(kids)
    /\ kids[k].st = "wired"
    /\ \/ kids' = [kids EXCEPT ![k].st = "run"]
       \/ kids' = [kids EXCEPT ![k].st = "zombie",
                               ![k].status = NotFoundStatus,
                               ![k].note = "command not found",
                               ![k].fds = {}]
       \/ kids' = [kids EXCEPT ![k].st = "zombie", ![k].status = 127,
                               ![k].note = "execve", ![k].fds = {}]
    /\ KidStep

\* The program of a stage ends with exit code c.
KidExit(k, c) ==
    /\ k \in 1 .. Len(kids)
    /\ kids[k].st = "run"
    /\ kids' = [kids EXCEPT ![k].st = "zombie", ![k].status = c, ![k].fds = {}]
    /\ KidStep

\* The program of a stage reads end-of-file on its stdin and ends.
KidExitOnEof(k) ==
    /\ k \in 1 .. Len(kids)
    /\ kids[k].st = "run"
    /\ Eof(kids[k], kids, pfds)
    /\ kids' = [kids EXCEPT ![k].st = "zombie", ![k].status = 0, ![k].fds = {}]
    /\ KidStep

PipeNext ==
    \/ XRead
    \/ XExit
    \/ XParseError
    \/ XStart
    \/ XPipe
    \/ XPipesDone
    \/ XFork
    \/ XForksDone
    \/ XClose
    \/ XWait
    \/ XWaitDone
    \/ XReturn
    \/ \E k \in 1 .. MaxStages : KidSetup(k)
    \/ \E k \in 1 .. MaxStages : KidExec(k)
    \/ \E k \in 1 .. MaxStages, c \in {0, 1} : KidExit(k, c)
    \/ \E k \in 1 .. MaxStages : KidExitOnEof(k)

PipeSpec == Init /\ [][PipeNext]_vars

\* The launcher keeps running, and so does every stage process; a program
\* ends once it reads end-of-file on its stdin (it may end earlier).
FairPipeSpec ==
    /\ PipeSpec
    /\ WF_vars(XExit \/ XParseError \/ XStart \/ XPipe \/ XPipesDone \/ XFork
               \/ XForksDone \/ XClose \/ XWait \/ XWaitDone \/ XReturn)
    /\ \A k \in 1 .. MaxStages :
          WF_vars(KidSetup(k) \/ KidExec(k) \/ KidExitOnEof(k))

----------------------------------------------------------------------------
(* Phase 2: properties *)

\* C10: once execute_pipeline is past its pipe loop it has created exactly
\* n - 1 pipes for its n stages, and once it is past the fork loop and its
\* close loop (it waits, or has returned from waiting) the launching process
\* holds no pipe descriptor.
C10_PipesCreatedAndClosed ==
    /\ xpc \in {"fork", "close", "wait", "done"} =>
          /\ npipes = n - 1
          /\ n \in 1 .. MAX_CMDS
    /\ xpc = "close" => pfds = PipeEnds(n - 1)
    /\ xpc \in {"wait", "done"} => pfds = {}

\* C10 witness: all the stages of a pipeline of at least two stages have
\* been created, and the parent has closed its descriptors.
C10_Witness ==
    /\ xpc = "wait"
    /\ n >= 2
    /\ Len(kids) = n
    /\ npipes = n - 1
    /\ pfds = {}

\* A stage process whose standard streams have been wired.
Wired(kid) == kid.st \in {"wired", "run", "zombie", "reaped"} /\ kid.note # "open"

\* The tokens of the line hold a redirection operator.
HasRedir(toks) == \E i \in 1 .. Len(toks) : IsRedir(toks[i])

\* C11: the standard output of every wired stage has the one destination its
\* place gives it: stage i < n - 1 writes to the write end of pipe i, with or
\* without a redirection on the line; the last stage writes to the file when
\* the line has a redirection and to the shell's own output otherwise; and
\* the pipeline executed has a redirection target exactly when the line has
\* a redirection operator, at whatever place in the line.
C11_OneDestinationPerStage ==
    /\ [](\A k \in 1 .. Len(kids) :
             Wired(kids[k]) =>
                 /\ kids[k].stage < n - 1 => kids[k].out = PipeEnd(kids[k].stage, 1)
                 /\ kids[k].stage = n - 1 =>
                        kids[k].out = (IF outfile # NoFile THEN File ELSE Tty))
    /\ [][ (xpc = "parse" /\ xpc' = "pipes") =>
              ((outfile' # NoFile) <=> HasRedir(tokens)) ]_vars

\* C11 witness: a two-stage pipeline with a redirection; both stages are
\* wired, the first to the pipe and the last to the file.
C11_Witness ==
    /\ n = 2
    /\ outfile # NoFile
    /\ Len(kids) = 2
    /\ Wired(kids[1]) /\ kids[1].out = PipeEnd(0, 1)
    /\ Wired(kids[2]) /\ kids[2].out = File

\* One of the operators "|", ">", ">>".
IsOperator(tok) == tok = Bar \/ IsRedir(tok)

\* A '|' of the line has an empty stage on one side: a leading '|', a
\* trailing '|', or two consecutive '|'.
EmptyStage(toks) ==
    \/ toks[1] = Bar
    \/ toks[Len(toks)] = Bar
    \/ \E i \in 1 .. (Len(toks) - 1) : toks[i] = Bar /\ toks[i + 1] = Bar

\* The step of main that parses the line (the exit builtin aside).
ParseStep == xpc = "parse" /\ tokens[1] # ExitWord

\* The line is refused: a message is printed, nothing is launched, and the
\* shell is back at reading the next line.
Refused == xpc' = "idle" /\ xmsg'[1] # "" /\ kids' = <<>> /\ cmds' = <<>>

\* C12: a line in which a '|' has an empty stage on a side is refused; and a
\* line that is accepted gives a pipeline of n_cmds >= 1 stages, each with
\* at least one argument, and with at most one redirection target, a token
\* of the line.
C12_EmptyStageRefused ==
    [][ ParseStep =>
          /\ EmptyStage(tokens) => Refused
          /\ xpc' = "pipes" =>
                /\ n' >= 1
                /\ Len(cmds') = n'
                /\ \A c \in 1 .. n' : Len(cmds'[c]) >= 1
                /\ outfile' # NoFile => \E i \in 1 .. Len(tokens) : tokens[i] = outfile'
      ]_vars

\* A redirection operator of the line is not followed by a filename word, or
\* the line holds more than one redirection operator.
BadRedir(toks) ==
    \/ \E i \in 1 .. Len(toks) :
          IsRedir(toks[i]) /\ (i = Len(toks) \/ IsOperator(toks[i + 1]))
    \/ Cardinality({i \in 1 .. Len(toks) : IsRedir(toks[i])}) > 1

\* C13: a line with a redirection operator as its last token, with an
\* operator in the filename position, or with a second redirection operator
\* is refused; the target of an accepted line is a plain word.
C13_RedirectionNeedsFilename ==
    [][ ParseStep =>
          /\ BadRedir(tokens) => Refused
          /\ (xpc' = "pipes" /\ outfile' # NoFile) => ~IsOperator(outfile')
      ]_vars

\* C14: the statuses of a pipeline are reported in stage order, one per
\* stage process, whatever the order in which the processes terminate, and
\* when execute_pipeline returns the last status reported, the outcome of
\* the pipeline, is that of the last stage.
C14_StatusesInStageOrder ==
    /\ \A i, j \in 1 .. Len(reaped) : i < j => reaped[i][1] < reaped[j][1]
    /\ (xpc = "done" /\ Len(kids) = n) =>
          /\ Len(reaped) = n
          /\ reaped[n][1] = n - 1

----------------------------------------------------------------------------
(* Phase 3: further properties *)

\* C15: a child whose command name cannot be resolved (it goes from the fork
\* to its end without running a program) reports "command not found" and
\* ends with status 127.
C15_NotFoundReported ==
    [][ \A p \in PIDS :
           (proc[p].st = "forked" /\ proc'[p].st = "exit")
               => msg' = <<"command not found", NotFoundStatus>> ]_vars

\* The status exit [code] is to end the shell with: the argument, 0 without.
AskedStatus(a) == IF a = <<>> THEN 0 ELSE ExitStatus(atoi(a))

\* C16: the exit builtin ends the shell with the status given as its
\* argument, and with 0 when there is none: in the job-control shell, and
\* in the pipeline shell (whose exit code is that of Phase 1).
C16_ExitStatusIsArgument ==
    /\ pc = "exited" => msg = <<"exit", AskedStatus(argv1)>>
    /\ xpc = "exited" =>
          xmsg = <<"Exiting", AskedStatus(IF Len(tokens) >= 2 THEN tokens[2] ELSE <<>>)>>

\* do_bgfg has looked a live job up and has not yet written its state.
BetweenLookupAndWrite ==
    /\ pc \in {"bf_kill", "bf_setfg", "bf_setbg"}
    /\ Live(jobs[job])

\* The step writes an entry of a job into the table, or changes one.
TouchesJob ==
    \E i \in SLOTS : jobs'[i] # jobs[i] /\ (Live(jobs[i]) \/ Live(jobs'[i]))

\* C17: every write of the main flow to a job of the table (a step that is
\* not a handler activation) is made with SIGCHLD blocked; and between
\* do_bgfg's lookup of a job and its write to the job's state SIGCHLD is
\* blocked and no activation of the handler changes the table.
C17_MutationsUnderBlock ==
    [][ /\ (TouchesJob /\ hlog' = {}) => blocked
        /\ BetweenLookupAndWrite =>
              /\ blocked
              /\ hlog' # {} => jobs' = jobs
      ]_vars

\* The step is an activation of the SIGCHLD handler.
Activation == sigchld /\ ~sigchld'

\* C18: an activation of the handler leaves no state change pending, and
\* every change that was pending for a tracked pid is in the table when it
\* returns: a terminated job is removed and its process reaped, a stopped
\* job is ST, a continued job is still there.
C18_HandlerDrainsAll ==
    [][ Activation =>
          /\ Notifs(proc') = {}
          /\ \A nt \in Notifs(proc) :
                LET i == getjob_pid(jobs, nt[1]) IN
                /\ \E e \in hlog' : e[1] = nt[1] /\ e[2] = nt[2]
                /\ i # NULL =>
                      /\ Gone(nt[2]) => /\ getjob_pid(jobs', nt[1]) = NULL
                                        /\ proc'[nt[1]].st = "none"
                      /\ nt[2] = "stopped" => jobs'[i].state = "ST"
                      /\ nt[2] = "continued" => jobs'[i].pid = nt[1]
      ]_vars

\* C18 witness: one activation has just handled the changes of two tracked
\* children, a termination and a stop.
C18_Witness ==
    \E e, f \in hlog : /\ e[1] # f[1]
                       /\ e[3] # NULL /\ f[3] # NULL
                       /\ Gone(e[2]) /\ jobs[e[3]] = clearjob
                       /\ f[2] = "stopped" /\ jobs[f[3]].state = "ST"

\* The state of the job in slot i changes in the step; the job stays.
StateChanges(i) ==
    /\ Live(jobs[i])
    /\ jobs'[i].pid = jobs[i].pid
    /\ jobs'[i].state # jobs[i].state

\* C19: a job is created by eval's addjob, as BG when the line ended in '&'
\* and as FG otherwise; the state of a live job becomes ST only in a handler
\* activation that saw a stop of its pid, FG only by do_bgfg's write for fg
\* and BG only by do_bgfg's write for bg, each reached only through the
\* kill that sends the continue signal; and a continued notification alone
\* changes no state.
C19_LifecycleTransitions ==
    [][ /\ \A i \in SLOTS :
             /\ (~Live(jobs[i]) /\ Live(jobs'[i])) =>
                   /\ pc = "addjob"
                   /\ jobs'[i].state = (IF bg THEN "BG" ELSE "FG")
             /\ StateChanges(i) =>
                   /\ jobs'[i].state \in {"FG", "BG", "ST"}
                   /\ jobs'[i].state = "ST" =>
                         \E e \in hlog' : e[1] = jobs[i].pid /\ e[2] = "stopped"
                   /\ jobs'[i].state = "FG" => (pc = "bf_setfg" /\ job = i /\ hlog' = {})
                   /\ jobs'[i].state = "BG" => (pc = "bf_setbg" /\ job = i /\ hlog' = {})
        /\ (pc' \in {"bf_setfg", "bf_setbg"} /\ pc' # pc) =>
              (pc = "bf_kill" /\ sent' = {ContTarget(jobs[job])})
        /\ \A e \in hlog' :
              (e[2] = "continued" /\ e[3] # NULL
                 /\ ~\E f \in hlog' : f[1] = e[1] /\ f[2] # "continued")
                  => jobs'[e[3]] = jobs[e[3]]
      ]_vars

\* C19 witness: bg has just put a job that was stopped into the background,
\* and the job's process has been continued.
C19_Witness ==
    /\ msg[1] = "resumed in background"
    /\ \E i \in SLOTS : /\ Real(jobs[i])
                        /\ jobs[i].jid = msg[2]
                        /\ jobs[i].state = "BG"
                        /\ proc[jobs[i].pid].st = "run"
                        /\ proc[jobs[i].pid].contN

\* An empty slot, and an occupied one.
EmptySlot(j) == j.pid = 0 /\ j.pgid = 0 /\ j.jid = 0 /\ j.state = "UNDEF"
OccupiedSlot(j) == j.pid # 0 /\ j.jid \in 1 .. MAXJOBS /\ j.state \in {"FG", "BG", "ST"}

\* C20: every slot of the table is empty (pid, pgid and jid 0, state UNDEF)
\* or occupied (jid in 1..MAXJOBS, state FG, BG or ST); and the slot that
\* do_bgfg's lookup by job id returns is not an empty one.
C20_SlotWellFormed ==
    /\ [](\A i \in SLOTS : EmptySlot(jobs[i]) \/ OccupiedSlot(jobs[i]))
    /\ [][ (pc = "prompt" /\ pc' = "bf_kill") => ~EmptySlot(jobs[job']) ]_vars

\* C21: a child whose program runs (or is stopped) is in its own process
\* group, which is not the shell's; and so is every child that eval has
\* passed to addjob, registered or refused, whether or not the child itself
\* has run yet: the pgid recorded in the table is the child's real group.
C21_OwnProcessGroup ==
    /\ \A p \in PIDS :
          proc[p].st \in {"run", "stop"} =>
              (proc[p].pgid = p /\ proc[p].pgid # shell_pgid)
    /\ \A p \in PIDS :
          (proc[p].st # "none" /\ proc[p].track \in {"reg", "lost"}) =>
              proc[p].pgid = p
    /\ \A i \in SLOTS :
          Real(jobs[i]) => /\ proc[jobs[i].pid].pgid = jobs[i].pgid
                           /\ jobs[i].pgid = jobs[i].pid

\* C21 witness: both scheduling orders at once.  A registered child has not
\* run at all yet (the parent's setpgid moved it), while the program of a
\* newer child already runs before eval has registered it (the child's own
\* setpgid moved it).
C21_Witness ==
    /\ pc = "addjob"
    /\ pid \in PIDS
    /\ proc[pid].st = "run"
    /\ proc[pid].pgid = pid
    /\ \E i \in SLOTS : /\ Real(jobs[i])
                        /\ proc[jobs[i].pid].st = "forked"
                        /\ proc[jobs[i].pid].pgid = jobs[i].pid

----------------------------------------------------------------------------
(* Phase 2: further properties *)

\* All n stages were created and each has got past its exec (or has ended),
\* and the launcher is past its close loop.
AllExeced ==
    /\ xpc \in {"wait", "done"}
    /\ Len(kids) = n
    /\ \A k \in 1 .. n : kids[k].st \in {"run", "zombie", "reaped"}

\* C22: once all the stages have exec'd and the parent has closed its copies,
\* the write end of pipe i is held by stage i alone, as its stdout, and the
\* read end by stage i + 1 alone, as its stdin, so that stage i + 1 reads
\* end-of-file once stage i has terminated; with programs that end on
\* end-of-file a launched pipeline is always waited to its end; and
\* execute_pipeline returns from its wait loop only when every child it
\* created has been reaped.
C22_EofReachesEveryStage ==
    /\ [](AllExeced =>
             /\ pfds = {}
             /\ \A k \in 1 .. n : kids[k].fds = {}
             /\ \A i \in 0 .. (n - 2) :
                   /\ Holders(kids, i, 1) \subseteq {i}
                   /\ Holders(kids, i, 0) \subseteq {i + 1}
                   /\ kids[i + 1].st = "run" =>
                         (Holders(kids, i, 1) = {i} /\ kids[i + 1].out = PipeEnd(i, 1))
                   /\ kids[i + 2].st = "run" =>
                         (Holders(kids, i, 0) = {i + 1} /\ kids[i + 2].in = PipeEnd(i, 0))
                   /\ (~KidLive(kids[i + 1]) /\ kids[i + 2].st = "run") =>
                         Eof(kids[i + 2], kids, pfds))
    /\ [](xpc = "done" => \A k \in 1 .. Len(kids) : kids[k].st = "reaped")
    /\ (xpc = "fork") ~> (xpc = "done")

\* C22 witness: in a pipeline of three stages the first stage has ended, the
\* other two run, and the second stage, alone holding the read end of the
\* first pipe, reads end-of-file there.
C22_Witness ==
    /\ AllExeced
    /\ n = 3
    /\ ~KidLive(kids[1])
    /\ kids[2].st = "run" /\ kids[3].st = "run"
    /\ Holders(kids, 0, 1) = {}
    /\ Holders(kids, 0, 0) = {1}
    /\ Holders(kids, 1, 1) = {1}
    /\ Eof(kids[2], kids, pfds)


\* C23: after pipe() or fork() has failed in execute_pipeline no further
\* stage process is created; every stage process created before the failure
\* is reaped before execute_pipeline returns; and at the return, after a
\* failure as after a full launch, the launcher holds no pipe descriptor.
C23_FailureLeavesNothingBehind ==
    /\ [][ (xpc = "pipe_error" \/ forkfail) => Len(kids') <= Len(kids) ]_vars
    /\ []((xpc = "pipe_error" \/ forkfail) => Len(kids) < n)
    /\ [](xpc = "done" => \A k \in 1 .. Len(kids) : kids[k].st = "reaped")
    /\ [](xpc \in {"done", "pipe_error"} => pfds = {})


----------------------------------------------------------------------------
(* Phase 3: properties of eval's launch *)

\* The slot tracks a process that fork created and that still exists, under
\* the process group eval gave it.
TracksCreated(j) ==
    /\ j.pid \in PIDS
    /\ j.pgid = j.pid
    /\ proc[j.pid].st # "none"

\* C24: every occupied slot tracks a process that was actually created, its
\* pid and pgid being the positive pid of a forked child; and when fork
\* fails in eval no job is registered, the terminal is not handed over, no
\* foreground wait is started, and the shell is back at the prompt.
C24_JobsAreForkedChildren ==
    /\ [](\A i \in SLOTS : Live(jobs[i]) => TracksCreated(jobs[i]))
    /\ [][ (pc = "addjob" /\ pid \notin PIDS) =>
              /\ jobs' = jobs
              /\ nextjid' = nextjid
      ]_vars
    /\ []((pid # 0 /\ pid \notin PIDS) => pc # "tcset")
    /\ [](InWaitfg => wpid \in PIDS)


\* C25: for a background launch eval goes from the unblock to the printf and
\* from there to the prompt, without a wait; and the job id it prints is the
\* jid stored in the table for the launched pid, whatever nextjid was at the
\* launch.
C25_PrintedJidIsStoredJid ==
    /\ [][ (pc = "unblock" /\ bg /\ pc' # pc) => pc' = "printbg" ]_vars
    /\ [][ (pc = "printbg" /\ pc' # pc) =>
              /\ pc' = "prompt"
              /\ msg'[1] = "background job"
              /\ \A i \in SLOTS :
                    (Real(jobs[i]) /\ jobs[i].pid = pid) => msg'[2] = jobs[i].jid
      ]_vars


----------------------------------------------------------------------------
(* Phase 2: properties of the limits *)

\* Word i of the line is an argument: neither an operator nor the filename
\* of a redirection.
ArgumentAt(line, i) ==
    /\ ~IsOperator(line[i])
    /\ i > 1 => ~IsRedir(line[i - 1])

\* The stage (from 0) word i of the line belongs to, and the number of
\* arguments typed for stage s.
StageOf(line, i) == Cardinality({j \in 1 .. (i - 1) : line[j] = Bar})
ArgsTyped(line, s) ==
    Cardinality({i \in 1 .. Len(line) : ArgumentAt(line, i) /\ StageOf(line, i) = s})

\* The line has more stages than MAX_CMDS, or a stage with more argument
\* words than MAX_ARGS - 1.
TooManyStages(line) == StageOf(line, Len(line) + 1) + 1 > MAX_CMDS
TooManyArgs(line) == \E s \in 0 .. Len(line) : ArgsTyped(line, s) > MAX_ARGS - 1

\* C26: a line (its redirection, if any, well formed) with more stages than
\* MAX_CMDS, or with more argument words in a stage than MAX_ARGS - 1, is
\* refused with a message and nothing is launched; and a pipeline is
\* launched only from a line all of whose typed words reached the parser.
C26_LimitsRefuseTheLine ==
    [][ (ParseStep /\ ~BadRedir(linebuf)) =>
          /\ TooManyStages(linebuf) => Refused
          /\ TooManyArgs(linebuf) => Refused
          /\ xpc' = "pipes" => tokens = linebuf
      ]_vars

============================================================================
